---- MODULE Spec2Model ----
(***************************************************************************)
(* Model of bpa/balanced_pairwise_affinities.py: the BPA transform         *)
(* (class BPA: __init__, compute_cost_matrix, mask_diagonal, forward).     *)
(*                                                                         *)
(* Numbers.  The program computes in IEEE floating point.  The model       *)
(* computes in binary fixed point with Scale = 2^10 units per 1.0, plus    *)
(* the three IEEE special values NaN, +Inf and -Inf.  Every operation      *)
(* rounds toward zero; a finite result beyond FiniteMax overflows to an    *)
(* infinity, as a float does beyond its largest finite value; x/0, 0/0,    *)
(* Inf-Inf and Inf/Inf follow the IEEE rules.                              *)
(*                                                                         *)
(* Tensors.  A tensor is a record [dim, data]: dim is the rank the code    *)
(* tests (x.dim()), data the sequence of its 2-D slices (exactly one slice *)
(* when dim = 2).  A slice is a sequence of rows.                          *)
(***************************************************************************)
EXTENDS Integers, Sequences, FiniteSets, TLC

VARIABLES obj, args, err, pc, x, x0, C, u, v, it, logP, x_bpa, pre, out

vars == <<obj, args, err, pc, x, x0, C, u, v, it, logP, x_bpa, pre, out>>

----------------------------------------------------------------------------
(* Bounds of the model. *)

\* sinkhorn_iterations is drawn from 0..MaxIters
MaxIters == 2
\* a feature matrix has 2..MaxN items
MaxN == 2
\* a batched feature tensor has 1..MaxB slices
MaxB == 2

----------------------------------------------------------------------------
(* Fixed-point numbers with the IEEE special values. *)

Scale == 2^10
FiniteMax == 2^29
PInf == 2^30
NInf == 0 - (2^30)
NaN == 2^30 + 1

IsNaN(a) == a = NaN
IsInf(a) == a = PInf \/ a = NInf
IsFinite(a) == a # NaN /\ a # PInf /\ a # NInf

Abs(n) == IF n < 0 THEN 0 - n ELSE n
Sgn(n) == IF n < 0 THEN 0 - 1 ELSE IF n > 0 THEN 1 ELSE 0

\* overflow of a finite result
Clamp(n) == IF n > FiniteMax THEN PInf ELSE IF n < 0 - FiniteMax THEN NInf ELSE n

Neg(a) == IF a = NaN THEN NaN ELSE IF a = PInf THEN NInf ELSE IF a = NInf THEN PInf ELSE 0 - a

Add(a, b) ==
    IF a = NaN \/ b = NaN THEN NaN
    ELSE IF IsInf(a) THEN (IF IsInf(b) /\ b # a THEN NaN ELSE a)
    ELSE IF IsInf(b) THEN b
    ELSE Clamp(a + b)

Sub(a, b) == Add(a, Neg(b))

\* product of two finite fixed-point numbers of small magnitude (|a|,|b| < 2^15)
Mul(a, b) == (Sgn(a) * Sgn(b)) * ((Abs(a) * Abs(b)) \div Scale)

\* |a| / |b| for finite a, b with b # 0, toward zero, without leaving 32 bits
DivMag(a, b) ==
    LET big == b >= 2^20
        aa == IF big THEN a \div Scale ELSE a
        bb == IF big THEN b \div Scale ELSE b
        q == aa \div bb
        r == aa % bb
    IN  IF q >= 2^20 THEN PInf ELSE Clamp(q * Scale + (r * Scale) \div bb)

\* IEEE division
Div(a, b) ==
    IF a = NaN \/ b = NaN THEN NaN
    ELSE IF IsInf(a) THEN (IF IsInf(b) THEN NaN
                           ELSE IF (a = PInf) = (b >= 0) THEN PInf ELSE NInf)
    ELSE IF IsInf(b) THEN 0
    ELSE IF b = 0 THEN (IF a = 0 THEN NaN ELSE IF a > 0 THEN PInf ELSE NInf)
    ELSE LET m == DivMag(Abs(a), Abs(b))
         IN  IF Sgn(a) * Sgn(b) < 0 THEN Neg(m) ELSE m

\* torch max of two values: NaN propagates
Max2(a, b) == IF a = NaN \/ b = NaN THEN NaN ELSE IF a >= b THEN a ELSE b

RECURSIVE MaxSeq(_)
MaxSeq(s) == IF Len(s) = 1 THEN s[1] ELSE Max2(s[1], MaxSeq(Tail(s)))

\* IEEE comparisons: every comparison with NaN is false
Leq(a, b) == a # NaN /\ b # NaN /\ a <= b
Less(a, b) == a # NaN /\ b # NaN /\ a < b
FEq(a, b) == a # NaN /\ b # NaN /\ a = b

RECURSIVE SqrtIter(_, _, _)
SqrtIter(n, lo, hi) ==
    IF lo >= hi THEN lo
    ELSE LET mid == (lo + hi + 1) \div 2
         IN  IF mid * mid <= n THEN SqrtIter(n, mid, hi) ELSE SqrtIter(n, lo, mid - 1)

\* square root of a finite fixed-point number 0 <= a < 2^20
Sqrt(a) == SqrtIter(a * Scale, 0, 2^15)

\* ln 2 in fixed point
Ln2 == (693147 * Scale) \div 1000000

Pow2(k) == 2^k

\* sum of the Taylor series of e^r from the term `term` of index n on, 0 <= r < Ln2
RECURSIVE ExpSeries(_, _, _)
ExpSeries(r, term, n) ==
    IF term = 0 THEN 0 ELSE term + ExpSeries(r, (term * r) \div (n * Scale), n + 1)

\* e^a: overflows to +Inf, underflows to 0
Exp(a) ==
    IF a = NaN THEN NaN
    ELSE IF a = PInf THEN PInf
    ELSE IF a = NInf THEN 0
    ELSE LET k == a \div Ln2
             r == a - k * Ln2
         IN  IF k >= 19 THEN PInf
             ELSE IF k < 0 - 11 THEN 0
             ELSE IF k >= 0 THEN Clamp(ExpSeries(r, Scale, 1) * Pow2(k))
             ELSE ExpSeries(r, Scale, 1) \div Pow2(0 - k)

\* 2 * atanh series: sum of pow/n + pow*t2/(n+2) + ...
RECURSIVE LnSeries(_, _, _)
LnSeries(pow, t2, n) ==
    IF pow = 0 THEN 0 ELSE (2 * pow) \div n + LnSeries((pow * t2) \div Scale, t2, n + 2)

\* ln of a finite y with Scale <= y < 2 * Scale
LnMantissa(y) ==
    LET t == ((y - Scale) * Scale) \div (y + Scale)
    IN  LnSeries(t, (t * t) \div Scale, 1)

RECURSIVE LnPos(_, _)
LnPos(y, k) ==
    IF y >= 2 * Scale THEN LnPos(y \div 2, k + 1)
    ELSE IF y < Scale THEN LnPos(y * 2, k - 1)
    ELSE k * Ln2 + LnMantissa(y)

\* natural logarithm
Ln(a) ==
    IF a = NaN \/ a = NInf THEN NaN
    ELSE IF a = PInf THEN PInf
    ELSE IF a < 0 THEN NaN
    ELSE IF a = 0 THEN NInf
    ELSE LnPos(a, 0)

\* a sequence given by its entries, evaluated once
Vector(n, f(_)) == [i \in 1..n |-> f(i)] \o <<>>

\* a sequence of rows given by its entries, evaluated once
Matrix(n, m, f(_, _)) == [i \in 1..n |-> [j \in 1..m |-> f(i, j)] \o <<>>] \o <<>>

RECURSIVE SumSeq(_)
SumSeq(s) == IF Len(s) = 0 THEN 0 ELSE Add(s[1], SumSeq(Tail(s)))

\* torch.logsumexp over a sequence: max-shifted, an infinite max is not subtracted
Lse(s) ==
    LET m == MaxSeq(s)
        e(i) == Exp(Sub(s[i], m))
    IN  IF m = NaN THEN NaN
        ELSE IF m = PInf THEN PInf
        ELSE IF m = NInf THEN NInf
        ELSE Add(m, Ln(SumSeq(Vector(Len(s), e))))

\* torch.sigmoid
Sigmoid(a) ==
    IF a = NaN THEN NaN
    ELSE IF a = PInf THEN Scale
    ELSE IF a = NInf THEN 0
    ELSE LET e == Exp(Neg(a))
         IN  IF e = PInf THEN 0 ELSE (Scale * Scale) \div (Scale + e)

----------------------------------------------------------------------------
(* Tensors. *)

NoTensor == [dim |-> 0, data |-> <<>>]

\* shape[0] of a batched tensor, shape[-2] of any tensor
NumSlices(M) == Len(M.data)
NumItems(M) == Len(M.data[1])

\* every entry of a slice, row after row
RECURSIVE FlattenRows(_)
FlattenRows(rows) == IF Len(rows) = 0 THEN <<>> ELSE rows[1] \o FlattenRows(Tail(rows))

\* every entry of a tensor
RECURSIVE FlattenSlices(_)
FlattenSlices(slices) ==
    IF Len(slices) = 0 THEN <<>> ELSE FlattenRows(slices[1]) \o FlattenSlices(Tail(slices))

\* apply f to every entry of a slice
MapSlice(f(_), sl) ==
    LET e(i, j) == f(sl[i][j]) IN Matrix(Len(sl), Len(sl[1]), e)

\* a tensor of the rank of M, slice b given by f(b)
Slicewise(M, f(_)) == [dim |-> M.dim, data |-> Vector(Len(M.data), f)]

----------------------------------------------------------------------------
(* BPA.__init__ *)

supported_distances == {"cosine", "euclidean"}

\* str.lower() on the metric names the model constructs with
Lower(s) == IF s = "Cosine" THEN "cosine" ELSE s

\* self.diagonal_val = 1e3
DiagonalVal == 1000

NoObj ==
    [sinkhorn_iterations |-> 0, distance_metric |-> "", mask_diag |-> FALSE,
     sigmoid |-> FALSE, ot_reg |-> 0, max_scale |-> FALSE, diagonal_val |-> 0]

NoArgs ==
    [distance_metric |-> "", ot_reg |-> 0, sinkhorn_iterations |-> 0,
     sigmoid |-> FALSE, mask_diag |-> FALSE, max_scale |-> FALSE]

\* the assert of __init__
InitAccepts(a) ==
    Lower(a.distance_metric) \in supported_distances /\ a.sinkhorn_iterations > 0

\* a variant that stores the metric as given, without lower()
StoredMetric_AsGiven(a) == a.distance_metric

\* the metric __init__ stores
StoredMetric(a) == Lower(a.distance_metric)

\* the fields __init__ assigns
InitFields(a) ==
    [sinkhorn_iterations |-> a.sinkhorn_iterations,
     distance_metric |-> StoredMetric(a),
     mask_diag |-> a.mask_diag,
     sigmoid |-> a.sigmoid,
     ot_reg |-> a.ot_reg,
     max_scale |-> a.max_scale,
     diagonal_val |-> DiagonalVal * Scale]

----------------------------------------------------------------------------
(* BPA.compute_cost_matrix *)

\* torch.cdist(x, x, p=2) on one slice
CDist(sl) ==
    LET d(i, j) ==
            LET sq(k) == Mul(sl[i][k] - sl[j][k], sl[i][k] - sl[j][k])
            IN  Sqrt(SumSeq(Vector(Len(sl[i]), sq)))
    IN  Matrix(Len(sl), Len(sl), d)

\* F.normalize(x, dim=-1, p=2) on one row: x / max(||x||, eps), eps below the
\* resolution, so that a zero row stays zero
Normalize(row) ==
    LET sq(k) == Mul(row[k], row[k])
        norm == Sqrt(SumSeq(Vector(Len(row), sq)))
        zero(k) == 0
        unit(k) == Div(row[k], norm)
    IN  IF norm = 0 THEN Vector(Len(row), zero) ELSE Vector(Len(row), unit)

\* 1 - (x_norm @ x_norm^T) on one slice
CosineDist(sl) ==
    LET nrm(i) == Normalize(sl[i])
        xn == Vector(Len(sl), nrm)
        d(i, j) ==
            LET pr(k) == Mul(xn[i][k], xn[j][k])
            IN  Sub(Scale, SumSeq(Vector(Len(xn[i]), pr)))
    IN  Matrix(Len(sl), Len(sl), d)

\* the euclidean branch: distances divided by the one maximum of the whole tensor
EuclideanCost(t) ==
    LET cd(b) == CDist(t.data[b])
        pd == Vector(Len(t.data), cd)
        mx == MaxSeq(FlattenSlices(pd))
        ByMax(a) == Div(a, mx)
        sc(b) == MapSlice(ByMax, pd[b])
    IN  Slicewise(t, sc)

\* the cosine branch
CosineCost(t) ==
    LET cd(b) == CosineDist(t.data[b]) IN Slicewise(t, cd)

\* a variant that normalizes the rows of the argument in place
InputAfterCost_InPlace(o, t) ==
    LET sl(b) == LET nrm(i) == Normalize(t.data[b][i]) IN Vector(Len(t.data[b]), nrm)
    IN  IF o.distance_metric = "cosine" THEN Slicewise(t, sl) ELSE t

\* the caller's tensor after compute_cost_matrix has read it: both branches
\* build new tensors (cdist, /, normalize, @, 1 - ...) and leave x alone
InputAfterCost(o, t) == t

\* the call: what it raises, what it returns, and its argument after the call
compute_cost_matrix(o, t) ==
    IF o.distance_metric = "euclidean"
      THEN [raised |-> "none", ret |-> EuclideanCost(t), x |-> InputAfterCost(o, t)]
    ELSE IF o.distance_metric = "cosine"
      THEN [raised |-> "none", ret |-> CosineCost(t), x |-> InputAfterCost(o, t)]
    ELSE [raised |-> "UnboundLocalError", ret |-> NoTensor, x |-> t]

----------------------------------------------------------------------------
(* BPA.mask_diagonal *)

\* a variant whose mask is not repeated over the batch: only slice 0 is masked
MaskedAssign_FirstSlice(M, value) ==
    LET sl(b) ==
            LET e(i, j) == IF i = j /\ b = 1 THEN value ELSE M.data[b][i][j]
            IN  Matrix(Len(M.data[b]), Len(M.data[b][1]), e)
    IN  Slicewise(M, sl)

\* M[torch.eye(M.shape[1]).repeat(M.shape[0], 1, 1).bool()] = value
MaskedAssign(M, value) ==
    LET sl(b) ==
            LET e(i, j) == IF i = j THEN value ELSE M.data[b][i][j]
            IN  Matrix(Len(M.data[b]), Len(M.data[b][1]), e)
    IN  Slicewise(M, sl)

\* M.fill_diagonal_(value)
FillDiagonal(M, value) ==
    LET e(i, j) == IF i = j THEN value ELSE M.data[1][i][j]
    IN  [dim |-> M.dim, data |-> << Matrix(Len(M.data[1]), Len(M.data[1][1]), e) >>]

\* a variant that does not test self.mask_diag
mask_diagonal_Always(o, M, value) ==
    IF M.dim > 2 THEN MaskedAssign(M, value) ELSE FillDiagonal(M, value)

mask_diagonal(o, M, value) ==
    IF o.mask_diag
      THEN (IF M.dim > 2 THEN MaskedAssign(M, value) ELSE FillDiagonal(M, value))
      ELSE M

----------------------------------------------------------------------------
(* ot.log_sinkhorn: the log-domain Sinkhorn solver, the same on every slice *)

\* log_mu = log_nu = -log(N)
LogMarginal(n) == Neg(Ln(n * Scale))

\* u = 0, v = 0: one vector of length N per slice
ZeroPotentials(M) ==
    LET z(b, i) == 0 IN Matrix(NumSlices(M), NumItems(M), z)

\* u <- log_mu - logsumexp over columns of (-cost + v) / reg
UpdateU(M, vv, reg) ==
    LET lm == LogMarginal(NumItems(M))
        e(b, i) ==
            LET t(j) == Div(Add(Neg(M.data[b][i][j]), vv[b][j]), reg)
            IN  Sub(lm, Lse(Vector(NumItems(M), t)))
    IN  Matrix(NumSlices(M), NumItems(M), e)

\* v <- log_nu - logsumexp over rows of (-cost + u) / reg
UpdateV(M, uu, reg) ==
    LET lm == LogMarginal(NumItems(M))
        e(b, j) ==
            LET t(i) == Div(Add(Neg(M.data[b][i][j]), uu[b][i]), reg)
            IN  Sub(lm, Lse(Vector(NumItems(M), t)))
    IN  Matrix(NumSlices(M), NumItems(M), e)

\* L[i,j] = (-cost[i,j] + u[i] + v[j]) / reg
LogPlan(M, uu, vv, reg) ==
    LET sl(b) ==
            LET e(i, j) == Div(Add(Add(Neg(M.data[b][i][j]), uu[b][i]), vv[b][j]), reg)
            IN  Matrix(NumItems(M), NumItems(M), e)
    IN  Slicewise(M, sl)

\* the potentials after n more updates
RECURSIVE SinkhornRun(_, _, _, _, _)
SinkhornRun(M, reg, n, uu, vv) ==
    IF n <= 0 THEN <<uu, vv>>
    ELSE LET nu == UpdateU(M, vv, reg)
         IN  SinkhornRun(M, reg, n - 1, nu, UpdateV(M, nu, reg))

log_sinkhorn(M, reg, num_iters) ==
    LET p == SinkhornRun(M, reg, num_iters, ZeroPotentials(M), ZeroPotentials(M))
    IN  LogPlan(M, p[1], p[2], reg)

----------------------------------------------------------------------------
(* BPA.forward *)

\* a variant that hands the solver one iteration less
SolverArgs_OneLess(o, M) ==
    [M |-> M, reg |-> o.ot_reg, num_iters |-> o.sinkhorn_iterations - 1]

\* the arguments forward hands to ot.log_sinkhorn
SolverArgs(o, M) == [M |-> M, reg |-> o.ot_reg, num_iters |-> o.sinkhorn_iterations]

\* torch.sigmoid(x_bpa) or torch.exp(x_bpa)
Recover(o, L) ==
    LET sl(b) == IF o.sigmoid THEN MapSlice(Sigmoid, L.data[b]) ELSE MapSlice(Exp, L.data[b])
    IN  Slicewise(L, sl)

\* a variant that takes x_bpa.max() of a batched tensor too
ZMax_Global(P) ==
    LET mx(b) == MaxSeq(FlattenSlices(P.data)) IN Vector(NumSlices(P), mx)

\* z_max: x_bpa.max() of an unbatched matrix, x_bpa.amax(dim=(1, 2)) of a batched one
ZMax(P) ==
    LET mx(b) == MaxSeq(FlattenRows(P.data[b]))
    IN  IF P.dim <= 2 THEN << MaxSeq(FlattenSlices(P.data)) >>
        ELSE Vector(NumSlices(P), mx)

\* x_bpa / z_max when max_scale is set
Rescale(o, P) ==
    LET z == ZMax(P)
        sl(b) == LET ByMax(a) == Div(a, z[b]) IN MapSlice(ByMax, P.data[b])
    IN  IF o.max_scale THEN Slicewise(P, sl) ELSE P

\* the value of the final fix-up
SelfAffinity == Scale

\* forward as one function of the instance and the input
Forward(o, t) ==
    LET M == mask_diagonal(o, compute_cost_matrix(o, t).ret, o.diagonal_val)
        a == SolverArgs(o, M)
        L == log_sinkhorn(a.M, a.reg, a.num_iters)
    IN  mask_diagonal(o, Rescale(o, Recover(o, L)), SelfAffinity)

----------------
(* Inputs. *)

\* the feature vectors (D = 2) the items are drawn from, in a fixed order
Items == << <<Scale, 0>>, <<Scale, Scale>> >>

\* the feature matrices of n items: forward treats the items alike, so the rows
\* are taken in the order of Items
RowsOf(n) ==
    { [i \in 1..n |-> Items[f[i]]] :
        f \in { g \in [1..n -> 1..Len(Items)] : \A i \in 1..(n - 1) : g[i] <= g[i + 1] } }

FeatureMatrices == UNION { RowsOf(n) : n \in 2..MaxN }

UnbatchedInputs == { [dim |-> 2, data |-> <<m>>] : m \in FeatureMatrices }

BatchedInputs ==
    { [dim |-> 3, data |-> d] :
        d \in UNION { [1..b -> RowsOf(n)] : b \in 1..MaxB, n \in 2..MaxN } }

Inputs == UnbatchedInputs \cup BatchedInputs

MetricNames == {"cosine", "euclidean", "Cosine", "manhattan"}

\* ot_reg: 0 (which the assert of __init__ does not look at), 1.0 and 2.0
RegValues == {0, Scale, 2 * Scale}

ConstructorArgs ==
    [distance_metric : MetricNames, ot_reg : RegValues,
     sinkhorn_iterations : 0..MaxIters,
     sigmoid : BOOLEAN, mask_diag : BOOLEAN, max_scale : BOOLEAN]

----------------------------------------------------------------------------
(* The state machine. *)

Init ==
    /\ obj = NoObj /\ args = NoArgs /\ err = "none" /\ pc = "new"
    /\ x = NoTensor /\ x0 = NoTensor /\ C = NoTensor
    /\ u = <<>> /\ v = <<>> /\ it = 0
    /\ logP = NoTensor /\ x_bpa = NoTensor /\ pre = NoTensor /\ out = NoTensor

\* BPA(...): the assert either fails and no instance exists, or the fields are set
Construct ==
    /\ pc = "new"
    /\ \E a \in ConstructorArgs :
        /\ args' = a
        /\ IF InitAccepts(a)
             THEN obj' = InitFields(a) /\ err' = "none" /\ pc' = "idle"
             ELSE obj' = NoObj /\ err' = "AssertionError" /\ pc' = "new"
    /\ UNCHANGED <<x, x0, C, u, v, it, logP, x_bpa, pre, out>>

\* bpa(x): the caller hands its feature tensor to forward
Call ==
    /\ pc = "idle"
    /\ \E t \in Inputs : x' = t /\ x0' = t
    /\ pc' = "called" /\ err' = "none" /\ out' = NoTensor /\ args' = NoArgs
    /\ UNCHANGED <<obj, C, u, v, it, logP, x_bpa, pre>>

\* C = self.compute_cost_matrix(x)
ComputeCost ==
    /\ pc = "called"
    /\ LET r == compute_cost_matrix(obj, x)
       IN  /\ x' = r.x
           /\ C' = r.ret
           /\ err' = r.raised
           /\ pc' = IF r.raised = "none" THEN "cost" ELSE "idle"
    /\ UNCHANGED <<obj, args, x0, u, v, it, logP, x_bpa, pre, out>>

\* C = self.mask_diagonal(C, value=self.diagonal_val)
MaskCost ==
    /\ pc = "cost"
    /\ C' = mask_diagonal(obj, C, obj.diagonal_val)
    /\ pc' = "masked"
    /\ UNCHANGED <<obj, args, err, x, x0, u, v, it, logP, x_bpa, pre, out>>

\* ot.log_sinkhorn is entered: the potentials start at zero
SinkhornInit ==
    /\ pc = "masked"
    /\ u' = ZeroPotentials(SolverArgs(obj, C).M)
    /\ v' = ZeroPotentials(SolverArgs(obj, C).M)
    /\ it' = 0
    /\ pc' = "solve"
    /\ UNCHANGED <<obj, args, err, x, x0, C, logP, x_bpa, pre, out>>

\* one fixed-point update: u, then v from the new u
SinkhornUpdate ==
    /\ pc = "solve"
    /\ it < SolverArgs(obj, C).num_iters
    /\ LET a == SolverArgs(obj, C)
           nu == UpdateU(a.M, v, a.reg)
       IN  u' = nu /\ v' = UpdateV(a.M, nu, a.reg)
    /\ it' = it + 1
    /\ UNCHANGED <<obj, args, err, pc, x, x0, C, logP, x_bpa, pre, out>>

\* ot.log_sinkhorn returns the log-domain plan
SinkhornReturn ==
    /\ pc = "solve"
    /\ it >= SolverArgs(obj, C).num_iters
    /\ LET a == SolverArgs(obj, C) IN logP' = LogPlan(a.M, u, v, a.reg)
    /\ pc' = "solved"
    /\ UNCHANGED <<obj, args, err, x, x0, C, u, v, it, x_bpa, pre, out>>

\* x_bpa = torch.sigmoid(x_bpa) or torch.exp(x_bpa)
RecoverStep ==
    /\ pc = "solved"
    /\ x_bpa' = Recover(obj, logP)
    /\ pc' = "recovered"
    /\ UNCHANGED <<obj, args, err, x, x0, C, u, v, it, logP, pre, out>>

\* x_bpa = x_bpa / z_max
RescaleStep ==
    /\ pc = "recovered"
    /\ x_bpa' = Rescale(obj, x_bpa)
    /\ pc' = "scaled"
    /\ UNCHANGED <<obj, args, err, x, x0, C, u, v, it, logP, pre, out>>

\* return self.mask_diagonal(x_bpa, value=1): in place, the result is x_bpa itself
FinalMask ==
    /\ pc = "scaled"
    /\ pre' = x_bpa
    /\ x_bpa' = mask_diagonal(obj, x_bpa, SelfAffinity)
    /\ out' = mask_diagonal(obj, x_bpa, SelfAffinity)
    /\ pc' = "done"
    /\ UNCHANGED <<obj, args, err, x, x0, C, u, v, it, logP>>

\* forward has returned and the caller has consumed the result: every tensor of
\* the call is gone, the instance stays
Return ==
    /\ pc = "done"
    /\ pc' = "idle"
    /\ x' = NoTensor /\ x0' = NoTensor /\ out' = NoTensor
    /\ C' = NoTensor /\ u' = <<>> /\ v' = <<>> /\ it' = 0
    /\ logP' = NoTensor /\ x_bpa' = NoTensor /\ pre' = NoTensor
    /\ UNCHANGED <<obj, args, err>>

Next ==
    \/ Construct
    \/ Call
    \/ ComputeCost
    \/ MaskCost
    \/ SinkhornInit
    \/ SinkhornUpdate
    \/ SinkhornReturn
    \/ RecoverStep
    \/ RescaleStep
    \/ FinalMask
    \/ Return

Spec == Init /\ [][Next]_vars

----------------------------------------------------------------------------
(* Vocabulary of the properties. *)

\* forward has been entered and has not returned
InCall == pc \in {"called", "cost", "masked", "solve", "solved", "recovered", "scaled", "done"}

\* the solver has returned
AfterSolve == pc \in {"solved", "recovered", "scaled", "done"}

Slices(T) == 1..NumSlices(T)
Idx(T) == 1..NumItems(T)

\* the unbatched tensor [N, D] that is slice b of a batched tensor
SliceOf(T, b) == [dim |-> 2, data |-> << T.data[b] >>]

InUnitRange(a) == Leq(0, a) /\ Leq(a, Scale)

SolveZero == ZeroPotentials(C)

\* the statements of forward still to run, the solver's loop counted once
StagesLeft ==
    CASE pc = "called" -> 7
      [] pc = "cost" -> 6
      [] pc = "masked" -> 5
      [] pc = "solve" -> 4
      [] pc = "solved" -> 3
      [] pc = "recovered" -> 2
      [] pc = "scaled" -> 1
      [] OTHER -> 0

\* a bound on the steps a call has left: it falls with every step of the call
StepsLeft ==
    StagesLeft * (obj.sinkhorn_iterations + 1)
        + (IF pc = "solve" THEN obj.sinkhorn_iterations - it ELSE 0)

----------------------------------------------------------------------------
(* C1: with mask_diag set, every diagonal entry of every slice of the      *)
(* returned matrix is exactly 1, whatever the solve and the rescale left   *)
(* there.                                                                  *)
C1_DiagonalIsOne ==
    (pc = "done" /\ obj.mask_diag) =>
        \A b \in Slices(out) : \A i \in Idx(out) : out.data[b][i][i] = SelfAffinity

\* a batch of two slices returned with mask_diag set, where the rescale had left
\* a finite value other than 1 on a diagonal cell of the second slice
C1_Witness ==
    /\ pc = "done" /\ obj.mask_diag /\ out.dim = 3 /\ NumSlices(out) = 2
    /\ \E i \in Idx(pre) : IsFinite(pre.data[2][i][i]) /\ pre.data[2][i][i] # SelfAffinity

(* C2: with max_scale set (and ot_reg > 0, as the interface requires),     *)
(* every entry of the returned matrix lies in [0,1], and before the final  *)
(* fix-up the maximum of the matrix (of each slice of a batch) is exactly  *)
(* 1.                                                                      *)
C2_UnitRange ==
    /\ (pc = "scaled" /\ obj.max_scale /\ obj.ot_reg > 0) =>
            \A b \in Slices(x_bpa) : FEq(MaxSeq(FlattenRows(x_bpa.data[b])), Scale)
    /\ (pc = "done" /\ obj.max_scale /\ obj.ot_reg > 0) =>
            \A b \in Slices(out) : \A i, j \in Idx(out) : InUnitRange(out.data[b][i][j])

(* C3: a construction with ot_reg <= 0 or sinkhorn_iterations <= 0 fails:  *)
(* the error is raised and no instance exists.                             *)
C3_NonPositiveRejected ==
    (args # NoArgs /\ (args.ot_reg <= 0 \/ args.sinkhorn_iterations <= 0)) =>
        (err = "AssertionError" /\ pc = "new" /\ obj = NoObj)

(* C4: an unsupported metric is rejected by the constructor; every call    *)
(* that reaches the cost builder runs with cosine or euclidean and the     *)
(* builder returns a cost matrix (it never raises at call time).           *)
C4_MetricRejectedEagerly ==
    /\ (args # NoArgs /\ Lower(args.distance_metric) \notin supported_distances) =>
            (err = "AssertionError" /\ pc = "new" /\ obj = NoObj)
    /\ InCall => obj.distance_metric \in supported_distances
    /\ err # "UnboundLocalError"
    /\ pc = "cost" => (C.dim = x0.dim /\ NumSlices(C) = NumSlices(x0)
                        /\ NumItems(C) = NumItems(x0))

\* the constructor has refused "manhattan" with every other argument valid
C4_WitnessRejected ==
    /\ pc = "new" /\ err = "AssertionError"
    /\ args.distance_metric = "manhattan" /\ args.sinkhorn_iterations > 0 /\ args.ot_reg > 0

(* C5: for the cosine metric, every slice b of the output for a batch is   *)
(* the output of forward for slice b alone as an unbatched input.          *)
C5_BatchIndependence ==
    (pc = "done" /\ obj.distance_metric = "cosine" /\ x0.dim = 3) =>
        \A b \in Slices(x0) : out.data[b] = Forward(obj, SliceOf(x0, b)).data[1]

\* a returned batch of two different slices whose plans have different maxima
C5_Witness ==
    /\ pc = "done" /\ obj.distance_metric = "cosine" /\ x0.dim = 3
    /\ obj.max_scale /\ obj.ot_reg > 0
    /\ NumSlices(x0) = 2 /\ out.data[1] # out.data[2]
    /\ LET P == Recover(obj, logP)
       IN  MaxSeq(FlattenRows(P.data[1])) # MaxSeq(FlattenRows(P.data[2]))

(* C6: with mask_diag unset, mask_diagonal changes nothing: the solver     *)
(* gets the cost matrix as built and the output is the rescaled plan,      *)
(* diagonal included.                                                      *)
C6_MaskDisabledIsIdentity ==
    /\ (pc = "masked" /\ ~obj.mask_diag) => C = compute_cost_matrix(obj, x0).ret
    /\ (pc = "done" /\ ~obj.mask_diag) => (out = pre /\ x_bpa = pre)

\* returned with mask_diag unset and a diagonal entry that is not 1
C6_Witness ==
    /\ pc = "done" /\ ~obj.mask_diag
    /\ \E b \in Slices(out) : \E i \in Idx(out) :
            IsFinite(out.data[b][i][i]) /\ out.data[b][i][i] # SelfAffinity
    /\ \E b \in Slices(C) : \E i \in Idx(C) : C.data[b][i][i] # obj.diagonal_val

(* C7: the solver starts from u = v = 0 on every call, each update raises  *)
(* the count by one, and it returns after exactly sinkhorn_iterations      *)
(* updates, never fewer or more; every step of a call lowers StepsLeft,    *)
(* which is never negative, so no call runs forever.                       *)
C7_ExactIterations ==
    /\ [](/\ (pc = "solve" /\ it = 0) => (u = SolveZero /\ v = SolveZero)
          /\ pc = "solve" => (it <= obj.sinkhorn_iterations)
          /\ AfterSolve => (it = obj.sinkhorn_iterations))
    /\ [][(pc = "solve" /\ pc' = "solve") => (it' = it + 1)]_vars
    /\ [][(pc = "solve" /\ pc' # "solve") => (pc' = "solved" /\ it' = it)]_vars
    /\ [](StepsLeft >= 0)
    /\ [][(InCall /\ pc # "done") => (StepsLeft' < StepsLeft)]_vars

\* the solver has returned after two updates that moved the potentials
C7_Witness ==
    /\ pc = "solved" /\ it = 2 /\ obj.sinkhorn_iterations = 2
    /\ u # SolveZero /\ v # SolveZero

(* C8: with mask_diag set, the cost matrix handed to the solver has 1000   *)
(* on every diagonal cell, the builder's value on every other cell, and    *)
(* 1000 is strictly greater than every off-diagonal cost.                  *)
C8_MaskedCost ==
    (pc = "masked" /\ obj.mask_diag) =>
        LET built == compute_cost_matrix(obj, x0).ret
        IN  \A b \in Slices(C) : \A i, j \in Idx(C) :
                IF i = j THEN C.data[b][i][j] = DiagonalVal * Scale
                ELSE /\ C.data[b][i][j] = built.data[b][i][j]
                     /\ Less(C.data[b][i][j], DiagonalVal * Scale)

(* C9: for the euclidean metric the cost matrix is symmetric, every entry  *)
(* lies in [0,1], and the largest distance of the whole batch is mapped to *)
(* 1.                                                                      *)
C9_EuclideanUnitRange ==
    (pc = "cost" /\ obj.distance_metric = "euclidean") =>
        /\ \A b \in Slices(C) : \A i, j \in Idx(C) :
                InUnitRange(C.data[b][i][j]) /\ FEq(C.data[b][i][j], C.data[b][j][i])
        /\ \E b \in Slices(C) : \E i, j \in Idx(C) : FEq(C.data[b][i][j], Scale)

(* C10: no step changes the fields of the instance; no step of a call      *)
(* changes the caller's feature tensor; and whatever calls came before,    *)
(* forward is entered with nothing but the instance and the input: every   *)
(* tensor, potential and counter of an earlier call is gone.  The steps of *)
(* forward are functions of the state, so equal inputs give equal outputs. *)
C10_NoObservableChange ==
    /\ [][pc # "new" => obj' = obj]_vars
    /\ [][InCall => (x = x0 /\ (pc # "done" => (x' = x /\ x0' = x0)))]_vars
    /\ [][pc' = "called" =>
            (C' = NoTensor /\ u' = <<>> /\ v' = <<>> /\ it' = 0 /\ logP' = NoTensor
             /\ x_bpa' = NoTensor /\ pre' = NoTensor /\ out' = NoTensor
             /\ err' = "none")]_vars

\* an instance that masks in place has served a call and is ready for the next
C10_Witness ==
    /\ pc = "idle" /\ args = NoArgs /\ obj.mask_diag /\ obj.distance_metric = "cosine"
    /\ err = "none"

====
